---- MODULE Spec2Model ----
(***************************************************************************)
(* Model of prompt-api-types (src/src/prompt-api.ts, src/README.md).       *)
(*                                                                         *)
(* The package declares the shapes of the browser Prompt API and shows     *)
(* example call sequences against the host object window.LanguageModel.    *)
(*                                                                         *)
(*  - Every declared type is an operator of the same name: T(v) holds      *)
(*    exactly when the value v is assignable to the declared type T.       *)
(*  - SpecTypes draws a value and the declaration it is checked against    *)
(*    from bounded candidate sets and applies the declaration to it.       *)
(*  - SpecExamples runs one of the documented example functions, one       *)
(*    step per call or per resolved await, against a host that may         *)
(*    resolve availability() to any Availability value.                    *)
(*                                                                         *)
(* JavaScript values are tagged records: the field t names the kind of     *)
(* the value.  A value of a DOM class (Blob, ImageData, ...) is identified *)
(* by the name of the class it is typed as; the subtyping the DOM library  *)
(* itself declares between those names is not part of this package.        *)
(***************************************************************************)
EXTENDS Integers, Sequences, FiniteSets, TLC

VARIABLES subject, verdict, callVerdict, example, pc, availability, calls, chunks

typeVars == <<subject, verdict, callVerdict>>
exampleVars == <<example, pc, availability, calls, chunks>>
vars == <<subject, verdict, callVerdict, example, pc, availability, calls, chunks>>

(***************************************************************************)
(* Bounds of the candidate sets and of the host's stream.                  *)
(***************************************************************************)
MaxMessages == 2
MaxChunks == 5

(***************************************************************************)
(* JavaScript values.                                                      *)
(***************************************************************************)
Str(s) == [t |-> "string", s |-> s]
Num(n) == [t |-> "number", n |-> n]
Bool(b) == [t |-> "boolean", b |-> b]
Prim(k) == [t |-> k]
Fn(r) == [t |-> "function", r |-> r]
Obj(f) == [t |-> "object", f |-> f]
Arr(e) == [t |-> "array", e |-> e]
Exc(c, f) == [t |-> c, f |-> f]
Args(e) == [t |-> "arguments", e |-> e]

Absent == [t |-> "absent"]
Strip(r) == [k \in {j \in DOMAIN r : r[j] # Absent} |-> r[k]]

Has(v, k) == k \in DOMAIN v.f
IsObject(v) == v.t = "object"
IsString(v) == v.t = "string"
IsNumber(v) == v.t = "number"
IsBoolean(v) == v.t = "boolean"
IsStringArray(v) == v.t = "array" /\ \A i \in DOMAIN v.e : IsString(v.e[i])

(***************************************************************************)
(* The declarations of src/src/prompt-api.ts.                              *)
(***************************************************************************)
TextValue == {"string"}
ImageValue ==
    {"Blob", "ImageData", "ImageBitmap", "VideoFrame", "OffscreenCanvas",
     "HTMLImageElement", "SVGImageElement", "HTMLCanvasElement",
     "HTMLVideoElement", "BufferSource", "ArrayBuffer"}
AudioValueWithArrayBuffer == {"Blob", "AudioBuffer", "BufferSource", "ArrayBuffer"}
AudioValue == {"Blob", "AudioBuffer", "BufferSource"}

ContentValue(tag) ==
    CASE tag = "text" -> TextValue
      [] tag = "image" -> ImageValue
      [] tag = "audio" -> AudioValue
      [] OTHER -> {}

PromptMessageContent(v) ==
    /\ IsObject(v)
    /\ Has(v, "type") /\ Has(v, "value")
    /\ IsString(v.f.type)
    /\ v.f.value.t \in ContentValue(v.f.type.s)

PromptResponseConstraintPropertyDescriptionRequired(v) ==
    /\ IsObject(v)
    /\ Has(v, "type") /\ IsString(v.f.type)
    /\ Has(v, "description") /\ IsString(v.f.description)

PromptResponseConstraintProperty(v) ==
    /\ IsObject(v)
    /\ Has(v, "type") /\ IsString(v.f.type)
    /\ (Has(v, "description") => IsString(v.f.description))

PromptResponseConstraintProperties(v) ==
    /\ IsObject(v)
    /\ \A k \in DOMAIN v.f : PromptResponseConstraintProperty(v.f[k])

PromptResponseConstraint(v) ==
    /\ IsObject(v)
    /\ Has(v, "type") /\ IsString(v.f.type)
    /\ Has(v, "required") /\ IsStringArray(v.f.required)
    /\ Has(v, "additionalProperties") /\ IsBoolean(v.f.additionalProperties)
    /\ Has(v, "properties") /\ PromptResponseConstraintProperties(v.f.properties)

PromptPayloadOptions(v) ==
    /\ IsObject(v)
    /\ Has(v, "responseConstraint") /\ PromptResponseConstraint(v.f.responseConstraint)
    /\ Has(v, "omitResponseConstraintInput") /\ IsBoolean(v.f.omitResponseConstraintInput)

RoleWithTool == {"system", "user", "assistant", "tool"}
Role == {"system", "user", "assistant"}
IsRole(v) == IsString(v) /\ v.s \in Role

ExpandedPromptPayload(v) ==
    /\ IsObject(v)
    /\ Has(v, "role") /\ IsRole(v.f.role)
    /\ Has(v, "content") /\ PromptMessageContent(v.f.content)

PromptPayload(v) ==
    \/ v.t = "array" /\ \A i \in DOMAIN v.e : ExpandedPromptPayload(v.e[i])
    \/ IsString(v)

ContentKind == {"text", "image", "audio"}
IsContentKind(v) == IsString(v) /\ v.s \in ContentKind

ExpectedInputOrOutput(v) ==
    /\ IsObject(v)
    /\ Has(v, "type") /\ IsContentKind(v.f.type)
    /\ (Has(v, "languages") => IsStringArray(v.f.languages))

SchemaTypeWithInteger == {"string", "number", "integer", "boolean", "array", "object"}
SchemaType == {"string", "number", "boolean", "array", "object"}
IsSchemaType(v) == IsString(v) /\ v.s \in SchemaType

InputSchemaProperty(v) ==
    /\ IsObject(v)
    /\ Has(v, "type") /\ IsSchemaType(v.f.type)
    /\ Has(v, "description") /\ IsString(v.f.description)

InputSchemaProperties(v) ==
    /\ IsObject(v)
    /\ \A k \in DOMAIN v.f : InputSchemaProperty(v.f[k])

InputSchema(v) ==
    /\ IsObject(v)
    /\ Has(v, "type") /\ IsSchemaType(v.f.type)
    /\ Has(v, "properties") /\ InputSchemaProperties(v.f.properties)
    /\ Has(v, "required") /\ IsStringArray(v.f.required)

Execute(v) == v.t = "function"

LanguageModelTool(v) ==
    /\ IsObject(v)
    /\ Has(v, "name") /\ IsString(v.f.name)
    /\ Has(v, "description") /\ IsString(v.f.description)
    /\ Has(v, "inputSchema") /\ InputSchema(v.f.inputSchema)
    /\ Has(v, "execute") /\ Execute(v.f.execute)

InitialPrompts(v) == v.t = "array" /\ \A i \in DOMAIN v.e : PromptPayload(v.e[i])
ExpectedInputOrOutputs(v) == v.t = "array" /\ \A i \in DOMAIN v.e : ExpectedInputOrOutput(v.e[i])
Tools(v) == v.t = "array" /\ \A i \in DOMAIN v.e : LanguageModelTool(v.e[i])

CreateOptionsTemperatureRequired(v) ==
    /\ IsObject(v)
    /\ (Has(v, "expectedInputs") => ExpectedInputOrOutputs(v.f.expectedInputs))
    /\ (Has(v, "expectedOutputs") => ExpectedInputOrOutputs(v.f.expectedOutputs))
    /\ (Has(v, "initialPrompts") => InitialPrompts(v.f.initialPrompts))
    /\ (Has(v, "tools") => Tools(v.f.tools))
    /\ Has(v, "temperature") /\ IsNumber(v.f.temperature)
    /\ (Has(v, "topK") => IsNumber(v.f.topK))

CreateOptions(v) ==
    /\ IsObject(v)
    /\ (Has(v, "expectedInputs") => ExpectedInputOrOutputs(v.f.expectedInputs))
    /\ (Has(v, "expectedOutputs") => ExpectedInputOrOutputs(v.f.expectedOutputs))
    /\ (Has(v, "initialPrompts") => InitialPrompts(v.f.initialPrompts))
    /\ (Has(v, "tools") => Tools(v.f.tools))
    /\ (Has(v, "temperature") => IsNumber(v.f.temperature))
    /\ (Has(v, "topK") => IsNumber(v.f.topK))

AvailabilityWithoutUnknown == {"available", "downloading", "downloadable", "unavailable"}
Availability == {"available", "downloading", "downloadable", "unavailable", "unknown"}
IsAvailability(v) == IsString(v) /\ v.s \in Availability

QuotaExceededErrorQuotaOptional(v) ==
    /\ v.t = "DOMException"
    /\ Has(v, "requested") /\ IsNumber(v.f.requested)
    /\ (Has(v, "quota") => IsNumber(v.f.quota))

QuotaExceededError(v) ==
    /\ v.t = "DOMException"
    /\ Has(v, "requested") /\ IsNumber(v.f.requested)
    /\ Has(v, "quota") /\ IsNumber(v.f.quota)

\* Method signatures: args.e is the list of the arguments of the call.
create(args) ==
    /\ Len(args.e) <= 1
    /\ Len(args.e) = 1 => CreateOptions(args.e[1])

prompt(args) ==
    /\ Len(args.e) \in 1..2
    /\ PromptPayload(args.e[1])
    /\ Len(args.e) = 2 => PromptPayloadOptions(args.e[2])

promptStreamingOptionsRequired(args) ==
    /\ Len(args.e) = 2
    /\ PromptPayload(args.e[1])
    /\ PromptPayloadOptions(args.e[2])

promptStreaming(args) ==
    /\ Len(args.e) \in 1..2
    /\ PromptPayload(args.e[1])
    /\ Len(args.e) = 2 => PromptPayloadOptions(args.e[2])

measureInputUsage(args) ==
    /\ Len(args.e) \in 1..2
    /\ PromptPayload(args.e[1])
    /\ Len(args.e) = 2 => PromptPayloadOptions(args.e[2])

(***************************************************************************)
(* The values written in the examples of prompt-api.ts and the README.     *)
(* A number is carried as the numeral written in the source.               *)
(***************************************************************************)
Text(s) == Obj([type |-> Str("text"), value |-> Str(s)])
Message(r, c) == Obj([role |-> Str(r), content |-> c])

ScenarioMessage == Message("user", Text("hi"))
ExampleSystemMessage == Message("system", Text("You are a helpful assistant."))
ExampleUserMessage == Message("user", Text("What is the capital of France?"))
ExampleImageMessage ==
    Message("user", Obj([type |-> Str("image"), value |-> Prim("HTMLImageElement")]))
ExampleImageQuestion == Message("user", Text("What do you see in this image?"))

ExampleTool ==
    Obj([name |-> Str("getCurrentTime"),
         description |-> Str("Get the current time"),
         inputSchema |-> Obj([type |-> Str("object"),
                              properties |-> Obj(<<>>),
                              required |-> Arr(<<>>)]),
         execute |-> Fn("value")])

ReadmeTool ==
    Obj([name |-> Str("getCurrentWeather"),
         description |-> Str("Get current weather for a location"),
         inputSchema |-> Obj([type |-> Str("object"),
                              properties |-> Obj([location |->
                                  Obj([type |-> Str("string"),
                                       description |-> Str("City name")])]),
                              required |-> Arr(<<Str("location")>>)]),
         execute |-> Fn("promise")])

ExampleConstraint ==
    Obj([type |-> Str("object"),
         required |-> Arr(<<Str("name"), Str("age")>>),
         additionalProperties |-> Bool(FALSE),
         properties |-> Obj([name |-> Obj([type |-> Str("string"),
                                           description |-> Str("Person name")]),
                             age |-> Obj([type |-> Str("number"),
                                          description |-> Str("Person age")])])])

ReadmeConstraint ==
    Obj([type |-> Str("object"),
         required |-> Arr(<<Str("name"), Str("age")>>),
         additionalProperties |-> Bool(FALSE),
         properties |-> Obj([name |-> Obj([type |-> Str("string")]),
                             age |-> Obj([type |-> Str("number")])])])

ExampleOptions ==
    Obj([responseConstraint |-> ExampleConstraint,
         omitResponseConstraintInput |-> Bool(FALSE)])

ReadmeOptions ==
    Obj([responseConstraint |-> ReadmeConstraint,
         omitResponseConstraintInput |-> Bool(FALSE)])

ExampleUsageCreateOptions ==
    Obj([temperature |-> Num("0.7"),
         topK |-> Num("40"),
         expectedInputs |-> Arr(<<Obj([type |-> Str("text")])>>),
         expectedOutputs |-> Arr(<<Obj([type |-> Str("text")])>>)])

ExampleToolsCreateOptions == Obj([tools |-> Arr(<<ExampleTool>>)])

ExampleImageCreateOptions ==
    Obj([expectedInputs |-> Arr(<<Obj([type |-> Str("text")]),
                                  Obj([type |-> Str("image")])>>),
         expectedOutputs |-> Arr(<<Obj([type |-> Str("text")])>>)])

ReadmeCreateOptions == Obj([temperature |-> Num("0.7"), topK |-> Num("40")])

ReadmeToolsCreateOptions == Obj([tools |-> Arr(<<ReadmeTool>>)])

(***************************************************************************)
(* Candidate values: the examples above, and values built field by field   *)
(* from well-typed, ill-typed and missing parts.                           *)
(***************************************************************************)
SeqsUpTo(S, n) == UNION {[1..k -> S] : k \in 0..n}

RoleCandidates ==
    {Str(r) : r \in {"system", "user", "assistant", "narrator", "tool", "model", ""}}
        \cup {Num("1")}

ValueCandidates ==
    {Str("hi"), Num("1"), Bool(TRUE)} \cup
    {Prim(k) : k \in {"Blob", "ImageData", "ImageBitmap", "VideoFrame",
                      "OffscreenCanvas", "HTMLImageElement", "SVGImageElement",
                      "HTMLCanvasElement", "HTMLVideoElement", "BufferSource",
                      "ArrayBuffer", "AudioBuffer", "HTMLAudioElement",
                      "MediaStream"}}

TagCandidates ==
    {Str(g) : g \in {"text", "image", "audio", "video", "file"}} \cup {Num("1")}

ContentCandidates ==
    {Obj(Strip(r)) : r \in [type : TagCandidates \cup {Absent},
                            value : ValueCandidates \cup {Absent}]}

MessageCandidates ==
    {Obj(Strip(r)) : r \in [role : RoleCandidates \cup {Absent},
                            content : ContentCandidates \cup {Absent}]}
        \cup {ScenarioMessage, ExampleSystemMessage, ExampleUserMessage,
              ExampleImageMessage, ExampleImageQuestion}

AvailabilityCandidates ==
    {Str(a) : a \in {"available", "downloading", "downloadable", "unavailable",
                     "unknown", "readily", "after-download", "no", ""}}
        \cup {Num("1"), Bool(TRUE)}

ConstraintPropertyCandidates ==
    {Obj(Strip(r)) : r \in [type : {Str("string"), Str("number"), Num("1"), Absent},
                            description : {Str("Person name"), Num("1"), Absent}]}

ConstraintPropertiesCandidates ==
    {Obj(<<>>), Str("name")} \cup
    {Obj([name |-> q]) : q \in ConstraintPropertyCandidates} \cup
    {Obj([name |-> q, age |-> Obj([type |-> Str("number")])]) :
        q \in ConstraintPropertyCandidates}

ConstraintCandidates ==
    {Obj(Strip(r)) : r \in
        [type : {Str("object"), Num("1"), Absent},
         required : {Arr(<<>>), Arr(<<Str("name"), Str("age")>>), Arr(<<Num("1")>>),
                     Str("name"), Absent},
         additionalProperties : {Bool(FALSE), Bool(TRUE), Str("no"), Absent},
         properties : ConstraintPropertiesCandidates \cup {Absent}]}
        \cup {ExampleConstraint, ReadmeConstraint}

SignalCandidates ==
    {Exc(c, Strip(r)) : c \in {"DOMException", "Error", "object"},
                        r \in [requested : {Num("500"), Str("500"), Absent},
                               quota : {Num("200"), Str("200"), Absent}]}

SchemaPropertyCandidates ==
    {Obj(Strip(r)) : r \in
        [type : {Str(g) : g \in {"string", "number", "boolean", "array", "object",
                                 "integer", "null"}} \cup {Num("1"), Absent},
         description : {Str("City name"), Num("1"), Absent}]}

SchemaPropertiesCandidates ==
    {Obj(<<>>), Str("location")} \cup
    {Obj([location |-> q]) : q \in SchemaPropertyCandidates} \cup
    {Obj([location |-> Obj([type |-> Str("string"), description |-> Str("City name")]),
          unit |-> q]) : q \in SchemaPropertyCandidates}

SchemaCandidates ==
    {Obj(Strip(r)) : r \in
        [type : {Str(g) : g \in {"string", "number", "boolean", "array", "object",
                                 "integer", "null"}} \cup {Num("1"), Absent},
         properties : SchemaPropertiesCandidates \cup {Absent},
         required : {Arr(<<>>), Arr(<<Str("location")>>), Arr(<<Num("1")>>),
                     Str("location"), Absent}]}

ToolCandidates ==
    {Obj(Strip(r)) : r \in
        [name : {Str("getCurrentWeather")},
         description : {Str("Get current weather for a location")},
         inputSchema : SchemaCandidates \cup {Absent},
         execute : {Fn("value"), Fn("promise")}]}
    \cup
    {Obj(Strip(r)) : r \in
        [name : {Str("getCurrentTime"), Num("1"), Absent},
         description : {Str("Get the current time"), Num("1"), Absent},
         inputSchema : {ExampleTool.f.inputSchema, ReadmeTool.f.inputSchema},
         execute : {Fn("value"), Fn("promise"), Str("now"), Absent}]}
    \cup {ExampleTool, ReadmeTool}

PayloadMessages ==
    {ExampleSystemMessage, ExampleUserMessage, ExampleImageMessage,
     Message("narrator", Text("hi")),
     Message("user", Obj([type |-> Str("audio"), value |-> Str("hi")]))}

MessageLists == {Arr(e) : e \in SeqsUpTo(PayloadMessages, MaxMessages)}

PayloadCandidates ==
    MessageLists \cup {Str("Hello, how are you?"), Num("1"), ExampleUserMessage}

OptionsCandidates ==
    {Obj(Strip(r)) : r \in
        [responseConstraint : {ExampleConstraint, ReadmeConstraint,
                               Obj([type |-> Str("object")]), Absent},
         omitResponseConstraintInput : {Bool(FALSE), Bool(TRUE), Str("no"), Absent}]}
        \cup {Str("json")}

SessionCallCandidates ==
    {Args(<<>>)} \cup {Args(<<p>>) : p \in PayloadCandidates}
                 \cup {Args(<<p, o>>) : p \in PayloadCandidates, o \in OptionsCandidates}

ExpectedCandidates ==
    {Arr(<<>>), Arr(<<Obj([type |-> Str("text")])>>),
     Arr(<<Obj([type |-> Str("text")]), Obj([type |-> Str("image")])>>),
     Arr(<<Obj([type |-> Str("audio"), languages |-> Arr(<<Str("en")>>)])>>),
     Arr(<<Obj([type |-> Str("video")])>>), Str("text")}

InitialPromptsCandidates ==
    MessageLists \cup {Arr(<<p>>) : p \in MessageLists} \cup
    {Arr(<<Str("You are a helpful assistant.")>>),
     Arr(<<Str("You are a helpful assistant."), Arr(<<ExampleUserMessage>>)>>),
     Arr(<<Num("1")>>), Str("You are a helpful assistant.")}

ToolsCandidates ==
    {Arr(<<>>), Arr(<<ExampleTool>>), Arr(<<ReadmeTool>>), Arr(<<ExampleTool, ReadmeTool>>),
     Arr(<<Obj([name |-> Str("getCurrentTime")])>>), ExampleTool}

CreateOptionsCandidates ==
    {Obj(Strip(r)) : r \in
        [expectedInputs : ExpectedCandidates \cup {Absent},
         expectedOutputs : {Arr(<<Obj([type |-> Str("text")])>>), Absent},
         initialPrompts : {Absent},
         tools : ToolsCandidates \cup {Absent},
         temperature : {Num("0.7"), Str("0.7"), Absent},
         topK : {Num("40"), Str("40"), Absent}]}
    \cup
    {Obj(Strip(r)) : r \in
        [expectedInputs : {Arr(<<Obj([type |-> Str("text")])>>), Absent},
         expectedOutputs : ExpectedCandidates \cup {Absent},
         initialPrompts : InitialPromptsCandidates \cup {Absent},
         tools : {Absent},
         temperature : {Num("0.7"), Absent},
         topK : {Absent}]}
    \cup {ExampleUsageCreateOptions, ExampleToolsCreateOptions, ExampleImageCreateOptions,
          ReadmeCreateOptions, ReadmeToolsCreateOptions, Str("fast")}

CreateCallCandidates ==
    {Args(<<>>)} \cup {Args(<<o>>) : o \in CreateOptionsCandidates}
                 \cup {Args(<<ReadmeCreateOptions, ReadmeCreateOptions>>)}

Against(T, S) == {[against |-> T, value |-> v] : v \in S}

Subjects ==
    Against("ExpandedPromptPayload", MessageCandidates) \cup
    Against("Availability", AvailabilityCandidates) \cup
    Against("PromptMessageContent", ContentCandidates) \cup
    Against("create", CreateCallCandidates) \cup
    Against("PromptResponseConstraint", ConstraintCandidates) \cup
    Against("QuotaExceededError", SignalCandidates) \cup
    Against("LanguageModelSession", SessionCallCandidates) \cup
    Against("LanguageModelTool", ToolCandidates)

(***************************************************************************)
(* SpecTypes: a drawn value is checked against a declaration.              *)
(***************************************************************************)
Verdict(ok) == IF ok THEN "accepted" ELSE "rejected"

SessionMethods == {"prompt", "promptStreaming", "measureInputUsage"}

NoCalls == [m \in SessionMethods |-> "unchecked"]

Idle ==
    /\ example = "none"
    /\ pc = "idle"
    /\ availability = "pending"
    /\ calls = <<>>
    /\ chunks = 0

InitTypes ==
    /\ subject \in Subjects
    /\ verdict = "unchecked"
    /\ callVerdict = NoCalls
    /\ Idle

CheckExpandedPromptPayload ==
    /\ subject.against = "ExpandedPromptPayload"
    /\ verdict = "unchecked"
    /\ verdict' = Verdict(ExpandedPromptPayload(subject.value))
    /\ UNCHANGED <<subject, callVerdict, exampleVars>>

CheckAvailability ==
    /\ subject.against = "Availability"
    /\ verdict = "unchecked"
    /\ verdict' = Verdict(IsAvailability(subject.value))
    /\ UNCHANGED <<subject, callVerdict, exampleVars>>

CheckPromptMessageContent ==
    /\ subject.against = "PromptMessageContent"
    /\ verdict = "unchecked"
    /\ verdict' = Verdict(PromptMessageContent(subject.value))
    /\ UNCHANGED <<subject, callVerdict, exampleVars>>

CheckCreate ==
    /\ subject.against = "create"
    /\ verdict = "unchecked"
    /\ verdict' = Verdict(create(subject.value))
    /\ UNCHANGED <<subject, callVerdict, exampleVars>>

CheckPromptResponseConstraint ==
    /\ subject.against = "PromptResponseConstraint"
    /\ verdict = "unchecked"
    /\ verdict' = Verdict(PromptResponseConstraint(subject.value))
    /\ UNCHANGED <<subject, callVerdict, exampleVars>>

CheckQuotaExceededError ==
    /\ subject.against = "QuotaExceededError"
    /\ verdict = "unchecked"
    /\ verdict' = Verdict(QuotaExceededError(subject.value))
    /\ UNCHANGED <<subject, callVerdict, exampleVars>>

CheckLanguageModelTool ==
    /\ subject.against = "LanguageModelTool"
    /\ verdict = "unchecked"
    /\ verdict' = Verdict(LanguageModelTool(subject.value))
    /\ UNCHANGED <<subject, callVerdict, exampleVars>>

CheckSessionCall ==
    /\ subject.against = "LanguageModelSession"
    /\ callVerdict = NoCalls
    /\ callVerdict' = [m \in SessionMethods |->
            CASE m = "prompt" -> Verdict(prompt(subject.value))
              [] m = "promptStreaming" -> Verdict(promptStreaming(subject.value))
              [] m = "measureInputUsage" -> Verdict(measureInputUsage(subject.value))]
    /\ UNCHANGED <<subject, verdict, exampleVars>>

NextTypes ==
    \/ CheckExpandedPromptPayload
    \/ CheckAvailability
    \/ CheckPromptMessageContent
    \/ CheckCreate
    \/ CheckPromptResponseConstraint
    \/ CheckQuotaExceededError
    \/ CheckLanguageModelTool
    \/ CheckSessionCall

SpecTypes == InitTypes /\ [][NextTypes]_vars

(***************************************************************************)
(* Properties of the declarations, checked under SpecTypes.                *)
(***************************************************************************)
Checked(T) == subject.against = T /\ verdict # "unchecked"
Arg(i) == subject.value.e[i]

\* C1: a structured message is accepted only if it carries a role among
\* system, user, assistant; the message {role, content: {type: 'text',
\* value: 'hi'}} is accepted exactly when its role is one of the three.
C1_RoleIsOneOfThree ==
    Checked("ExpandedPromptPayload") =>
        /\ verdict = "accepted" =>
              /\ Has(subject.value, "role")
              /\ subject.value.f.role \in {Str("system"), Str("user"), Str("assistant")}
        /\ /\ Has(subject.value, "role")
           /\ Has(subject.value, "content")
           /\ subject.value.f.content = Text("hi")
           => (verdict = "accepted" <=>
                 subject.value.f.role \in {Str("system"), Str("user"), Str("assistant")})

C1_Witness ==
    /\ Checked("ExpandedPromptPayload")
    /\ subject.value = Message("user", Text("hi"))
    /\ verdict = "accepted"

\* C2: a value is an admissible availability status exactly when it is one of
\* the five strings available, downloading, downloadable, unavailable, unknown.
C2_AvailabilityIsFiveValues ==
    Checked("Availability") =>
        (verdict = "accepted" <=>
            subject.value \in {Str("available"), Str("downloading"), Str("downloadable"),
                               Str("unavailable"), Str("unknown")})

C2_Witness ==
    /\ Checked("Availability")
    /\ subject.value = Str("unknown")
    /\ verdict = "accepted"

C4_AllCreateFieldsOptional ==
    Checked("create") =>
        /\ Len(subject.value.e) = 0 => verdict = "accepted"
        /\ subject.value.e = <<Obj(<<>>)>> => verdict = "accepted"
        /\ /\ Len(subject.value.e) = 1
           /\ IsObject(Arg(1))
           /\ Has(Arg(1), "expectedInputs") => ExpectedInputOrOutputs(Arg(1).f.expectedInputs)
           /\ Has(Arg(1), "expectedOutputs") => ExpectedInputOrOutputs(Arg(1).f.expectedOutputs)
           /\ Has(Arg(1), "initialPrompts") => InitialPrompts(Arg(1).f.initialPrompts)
           /\ Has(Arg(1), "tools") => Tools(Arg(1).f.tools)
           /\ Has(Arg(1), "temperature") => Arg(1).f.temperature.t = "number"
           /\ Has(Arg(1), "topK") => Arg(1).f.topK.t = "number"
           => verdict = "accepted"

C4_Witness ==
    /\ Checked("create")
    /\ subject.value.e = <<Obj(<<>>)>>
    /\ verdict = "accepted"

C5_PropertySchemaOk(q) ==
    /\ q.t = "object"
    /\ Has(q, "type") /\ q.f.type.t = "string"
    /\ Has(q, "description") => q.f.description.t = "string"

\* C5: a response constraint is accepted exactly when it carries a string
\* type, a required list of strings, a boolean additionalProperties and a
\* properties map whose every entry carries a string type and, if it carries
\* a description, a string one; so a constraint lacking required or
\* properties is rejected, and the README and example constraints are accepted.
C5_ConstraintNeedsRequiredAndProperties ==
    Checked("PromptResponseConstraint") =>
        /\ verdict = "accepted" <=>
              /\ Has(subject.value, "type") /\ subject.value.f.type.t = "string"
              /\ Has(subject.value, "required")
              /\ subject.value.f.required.t = "array"
              /\ \A i \in DOMAIN subject.value.f.required.e :
                    subject.value.f.required.e[i].t = "string"
              /\ Has(subject.value, "additionalProperties")
              /\ subject.value.f.additionalProperties.t = "boolean"
              /\ Has(subject.value, "properties")
              /\ subject.value.f.properties.t = "object"
              /\ \A k \in DOMAIN subject.value.f.properties.f :
                    C5_PropertySchemaOk(subject.value.f.properties.f[k])
        /\ ~Has(subject.value, "required") => verdict = "rejected"
        /\ ~Has(subject.value, "properties") => verdict = "rejected"
        /\ subject.value \in {ExampleConstraint, ReadmeConstraint} => verdict = "accepted"

C5_Witness ==
    /\ Checked("PromptResponseConstraint")
    /\ subject.value = ReadmeConstraint
    /\ verdict = "accepted"

\* C6: an accepted quota-exceeded signal carries a numeric requested and a
\* numeric quota; the DOMException with requested 500 and quota 200 is
\* accepted, and a signal missing quota or missing requested is rejected.
C6_QuotaSignalCarriesBoth ==
    Checked("QuotaExceededError") =>
        /\ verdict = "accepted" =>
              /\ Has(subject.value, "requested") /\ subject.value.f.requested.t = "number"
              /\ Has(subject.value, "quota") /\ subject.value.f.quota.t = "number"
        /\ subject.value = Exc("DOMException", [requested |-> Num("500"), quota |-> Num("200")])
              => verdict = "accepted"
        /\ ~Has(subject.value, "quota") => verdict = "rejected"
        /\ ~Has(subject.value, "requested") => verdict = "rejected"

C6_Witness ==
    /\ Checked("QuotaExceededError")
    /\ subject.value = Exc("DOMException", [requested |-> Num("500"), quota |-> Num("200")])
    /\ verdict = "accepted"

C8_SameArgumentsForAllThree ==
    (subject.against = "LanguageModelSession" /\ callVerdict # NoCalls) =>
        /\ callVerdict["prompt"] = callVerdict["promptStreaming"]
        /\ callVerdict["prompt"] = callVerdict["measureInputUsage"]
        /\ callVerdict["promptStreaming"] = "accepted" <=>
              /\ Len(subject.value.e) \in {1, 2}
              /\ \/ Arg(1).t = "string"
                 \/ /\ Arg(1).t = "array"
                    /\ \A i \in DOMAIN Arg(1).e : ExpandedPromptPayload(Arg(1).e[i])
              /\ Len(subject.value.e) = 2 =>
                    /\ Arg(2).t = "object"
                    /\ Has(Arg(2), "responseConstraint")
                    /\ PromptResponseConstraint(Arg(2).f.responseConstraint)
                    /\ Has(Arg(2), "omitResponseConstraintInput")
                    /\ Arg(2).f.omitResponseConstraintInput.t = "boolean"

C8_Witness ==
    /\ subject.against = "LanguageModelSession"
    /\ subject.value = Args(<<Str("Hello, how are you?"),
                              Obj([responseConstraint |-> ExampleConstraint])>>)
    /\ \A m \in SessionMethods : callVerdict[m] = "rejected"

C9_TypeTag(v) ==
    v \in {Str("string"), Str("number"), Str("boolean"), Str("array"), Str("object")}

C9_SchemaOk(sch) ==
    /\ sch.t = "object"
    /\ Has(sch, "type") /\ C9_TypeTag(sch.f.type)
    /\ Has(sch, "required")
    /\ sch.f.required.t = "array"
    /\ \A i \in DOMAIN sch.f.required.e : sch.f.required.e[i].t = "string"
    /\ Has(sch, "properties")
    /\ sch.f.properties.t = "object"
    /\ \A k \in DOMAIN sch.f.properties.f :
          /\ sch.f.properties.f[k].t = "object"
          /\ Has(sch.f.properties.f[k], "type")
          /\ C9_TypeTag(sch.f.properties.f[k].f.type)
          /\ Has(sch.f.properties.f[k], "description")
          /\ sch.f.properties.f[k].f.description.t = "string"

\* C9: a tool descriptor is accepted exactly when it carries a string name, a
\* string description, an execute function (returning a value or a promise)
\* and an inputSchema with a type among string, number, boolean, array,
\* object, a required list of strings and a properties map whose every entry
\* carries a type among the same five and a string description; the README
\* and example descriptors are accepted.
C9_ToolDescriptorShape ==
    Checked("LanguageModelTool") =>
        /\ verdict = "accepted" <=>
              /\ Has(subject.value, "name") /\ subject.value.f.name.t = "string"
              /\ Has(subject.value, "description")
              /\ subject.value.f.description.t = "string"
              /\ Has(subject.value, "inputSchema")
              /\ C9_SchemaOk(subject.value.f.inputSchema)
              /\ Has(subject.value, "execute")
              /\ subject.value.f.execute \in {Fn("value"), Fn("promise")}
        /\ subject.value \in {ExampleTool, ReadmeTool} => verdict = "accepted"

C9_Witness ==
    /\ Checked("LanguageModelTool")
    /\ subject.value = ExampleTool
    /\ verdict = "accepted"

(***************************************************************************)
(* SpecExamples: the example functions of prompt-api.ts and the README.    *)
(*                                                                         *)
(* An example runs synchronously up to its next await; the host then       *)
(* resolves or rejects the awaited promise and the example continues.      *)
(* calls is the log of the host methods invoked so far, each with its      *)
(* arguments and the state of its result.                                  *)
(***************************************************************************)
Examples ==
    {"exampleUsage", "exampleWithTools", "exampleWithConstraints", "exampleWithImage",
     "useLanguageModel"}

Call(m, a) == [method |-> m, args |-> Args(a), state |-> "pending"]

\* The argument of create in each example.
CreateCall(ex) ==
    CASE ex = "exampleUsage" -> Call("create", <<ExampleUsageCreateOptions>>)
      [] ex = "exampleWithTools" -> Call("create", <<ExampleToolsCreateOptions>>)
      [] ex = "exampleWithConstraints" -> Call("create", <<>>)
      [] ex = "exampleWithImage" -> Call("create", <<ExampleImageCreateOptions>>)
      [] ex = "useLanguageModel" -> Call("create", <<ReadmeCreateOptions>>)

\* The session requests of each example, in program order.
Requests(ex) ==
    CASE ex = "exampleUsage" ->
            <<Call("prompt", <<Str("Hello, how are you?")>>),
              Call("prompt", <<Arr(<<ExampleSystemMessage, ExampleUserMessage>>)>>),
              Call("promptStreaming", <<Str("Tell me a story")>>),
              Call("measureInputUsage", <<Str("How much usage does this use?")>>)>>
      [] ex = "exampleWithTools" ->
            <<Call("prompt", <<Str("What time is it?")>>)>>
      [] ex = "exampleWithConstraints" ->
            <<Call("prompt", <<Str("Generate a person object with name and age"),
                               ExampleOptions>>)>>
      [] ex = "exampleWithImage" ->
            <<Call("prompt", <<Arr(<<ExampleImageQuestion, ExampleImageMessage>>)>>)>>
      [] ex = "useLanguageModel" ->
            <<Call("prompt", <<Str("Hello, how are you?")>>),
              Call("prompt", <<Arr(<<ExampleSystemMessage,
                                     Message("user", Text("What is TypeScript?"))>>)>>),
              Call("promptStreaming", <<Str("Tell me a story")>>)>>

\* The test every example makes on the awaited availability.
IsNotUnavailable(a) == a # "unavailable"
IsAvailable(a) == a = "available"

Settle(log, st) == [log EXCEPT ![Len(log)].state = st]

\* The position at which an example waits after invoking method m.
WaitFor(m) ==
    CASE m = "availability" -> "awaitAvailability"
      [] m = "create" -> "awaitCreate"
      [] m = "promptStreaming" -> "streaming"
      [] OTHER -> "awaitRequest"

\* The example continues after its last call has resolved: it issues the
\* next session request of its program, or returns when none is left.
Continue(log) ==
    LET issued == Len(log) - 2
    IN  IF issued < Len(Requests(example))
        THEN /\ calls' = Append(log, Requests(example)[issued + 1])
             /\ pc' = WaitFor(Requests(example)[issued + 1].method)
        ELSE /\ calls' = log
             /\ pc' = "returned"

InitExamples ==
    /\ subject = [against |-> "none", value |-> Absent]
    /\ verdict = "unchecked"
    /\ callVerdict = NoCalls
    /\ example \in Examples
    /\ pc = "start"
    /\ availability = "pending"
    /\ calls = <<>>
    /\ chunks = 0

Start ==
    /\ pc = "start"
    /\ calls' = <<Call("availability", <<>>)>>
    /\ pc' = WaitFor("availability")
    /\ UNCHANGED <<typeVars, example, availability, chunks>>

ResolveAvailability ==
    /\ pc = "awaitAvailability"
    /\ \E a \in Availability :
          /\ availability' = a
          /\ IF IsAvailable(a)
             THEN /\ calls' = Append(Settle(calls, "resolved"), CreateCall(example))
                  /\ pc' = WaitFor("create")
             ELSE /\ calls' = Settle(calls, "resolved")
                  /\ pc' = "returned"
    /\ UNCHANGED <<typeVars, example, chunks>>

ResolveCreate ==
    /\ pc = "awaitCreate"
    /\ Continue(Settle(calls, "resolved"))
    /\ UNCHANGED <<typeVars, example, availability, chunks>>

ResolveRequest ==
    /\ pc = "awaitRequest"
    /\ Continue(Settle(calls, "resolved"))
    /\ UNCHANGED <<typeVars, example, availability, chunks>>

StreamChunk ==
    /\ pc = "streaming"
    /\ chunks < MaxChunks
    /\ chunks' = chunks + 1
    /\ UNCHANGED <<typeVars, example, pc, availability, calls>>

StreamDone ==
    /\ pc = "streaming"
    /\ Continue(Settle(calls, "resolved"))
    /\ UNCHANGED <<typeVars, example, availability, chunks>>

Reject ==
    /\ pc \in {"awaitAvailability", "awaitCreate", "awaitRequest", "streaming"}
    /\ calls' = Settle(calls, "rejected")
    /\ pc' = "threw"
    /\ UNCHANGED <<typeVars, example, availability, chunks>>

NextExamples ==
    \/ Start
    \/ ResolveAvailability
    \/ ResolveCreate
    \/ ResolveRequest
    \/ StreamChunk
    \/ StreamDone
    \/ Reject

SpecExamples == InitExamples /\ [][NextExamples]_vars

Methods(log) == [i \in DOMAIN log |-> log[i].method]
IsPrefix(p, q) == Len(p) <= Len(q) /\ \A i \in DOMAIN p : p[i] = q[i]

\* C10: in every example create is invoked only after availability() resolved
\* to 'available' and no session request is invoked before create resolved;
\* for the other four availability values nothing but availability() is ever
\* invoked; every call but the last has resolved when the next is invoked;
\* exampleUsage invokes prompt, prompt, promptStreaming, measureInputUsage in
\* that order, the last only once the stream has ended.
C10_ExamplesCallInOrder ==
    /\ \A i \in DOMAIN calls :
          /\ calls[i].method = "create" =>
                /\ i = 2
                /\ availability = "available"
                /\ calls[1].method = "availability" /\ calls[1].state = "resolved"
          /\ calls[i].method \in SessionMethods =>
                /\ i > 2
                /\ calls[2].method = "create" /\ calls[2].state = "resolved"
          /\ i < Len(calls) => calls[i].state = "resolved"
    /\ availability \in {"downloading", "downloadable", "unavailable", "unknown"} =>
          Methods(calls) = <<"availability">>
    /\ availability = "pending" => Len(calls) <= 1
    /\ example = "exampleUsage" =>
          IsPrefix(Methods(calls), <<"availability", "create", "prompt", "prompt",
                                     "promptStreaming", "measureInputUsage">>)
    /\ example = "useLanguageModel" =>
          IsPrefix(Methods(calls), <<"availability", "create", "prompt", "prompt",
                                     "promptStreaming">>)
    /\ example \in {"exampleWithTools", "exampleWithConstraints", "exampleWithImage"} =>
          IsPrefix(Methods(calls), <<"availability", "create", "prompt">>)

C10_Witness ==
    /\ example = "exampleUsage"
    /\ pc = "returned"
    /\ Methods(calls) = <<"availability", "create", "prompt", "prompt",
                          "promptStreaming", "measureInputUsage">>
    /\ chunks > 0

====
